---- MODULE Spec2Model ----
(***************************************************************************)
(* PCI host bridge registry (drivers/pci/host-bridge.c and its revisions): *)
(* pci_create_host_bridge / pci_free_host_bridge over the global           *)
(* pci_host_bridge_list under pci_host_mutex, the domain allocator         *)
(* pci_assign_domain_nr, the bus-number conflict resolution                *)
(* pci_host_busn_res_check / pci_host_busn_res_overlap, and the address    *)
(* translation pcibios_resource_to_bus / pcibios_bus_to_resource.          *)
(***************************************************************************)
EXTENDS Integers, Sequences, FiniteSets, TLC

\* ---------------------------------------------------------------- bounds
NProcs == 2
MaxBridges == 3
MaxRacing == 2
MaxDomain == 1
MaxBuses == 1
MaxAddr == 3
MaxWindows == 2

\* ------------------------------------------------------ program constants
BusMax == 255

Procs == 1..NProcs
BridgeIds == 1..MaxBridges
BusChoices == {0, 10, BusMax}
BusRanges == {<<0, BusMax>>, <<10, BusMax>>}

Window(t, s, e, o) == [type |-> t, start |-> s, end |-> e, offset |-> o]
MemWindow == Window("mem", 0, 10, 0)
\* a bus-number window that ends below some of the buses a caller asks for
ShortRange == <<0, 5>>
\* caller-supplied resource lists: with and without a bus-number window
ResourceLists ==
    {<<MemWindow>>} \cup
    {<<MemWindow, Window("bus", r[1], r[2], 0)>> : r \in BusRanges \cup {ShortRange}}

VARIABLES
    rev,                  \* which revision is built: "overlap" | "check"
    generic,              \* CONFIG_PCI_DOMAINS_GENERIC (Mode B) built in
    bridges,              \* kzalloc'ed struct pci_host_bridge objects
    pci_host_bridge_list, \* the registry list, in list order
    pci_host_mutex,       \* 0 = unlocked, otherwise the holder
    domain_nr,            \* atomic_t __domain_nr
    use_dt_domains,       \* static int use_dt_domains
    buses,                \* live buses: <<owning bridge, bus number>>
    pc,                   \* each caller's position
    host,                 \* each caller's host pointer (0 = NULL)
    args,                 \* each caller's call arguments
    udt,                  \* each caller's value read from use_dt_domains
    preList,              \* the registry list when the caller's call began
    preBusn,              \* the bus-number windows of the list's bridges at that time
    served,               \* history: the values pci_get_new_domain_nr returned
    declared_seen,        \* history: some call supplied a DT domain
    dt_accepted,          \* history: some DT domain was accepted
    kfreed,               \* history: kfree counts per bridge object
    teardown,             \* history: the release steps run on each bridge, in order
    pool,                 \* how many bridge objects kzalloc can hand out in this run
    xl_windows,           \* translation: the bridge's window list
    xl_res,               \* translation: the struct resource handed in
    xl_region,            \* translation: the struct pci_bus_region computed
    xl_out,               \* translation: the struct resource computed back
    xl_pc,                \* translation: which call has been made
    bn_list,              \* bus-number manager: the caller's resource list
    bn_bus,               \* bus-number manager: the requested bus
    bn_out,               \* bus-number manager: the list after the call
    bn_pc,                \* bus-number manager: whether the call has been made
    phb_mutex,            \* busnum revision: phb_mutex, 0 = unlocked, otherwise the holder
    phb_bridge_list,      \* busnum revision: its pci_host_bridge_list, in list order
    phb_bridges,          \* busnum revision: kzalloc'ed struct pci_host_bridge objects
    phb_pc,               \* busnum revision: each caller's position
    phb_host              \* busnum revision: each caller's host pointer (0 = NULL)

vars == <<rev, generic, bridges, pci_host_bridge_list, pci_host_mutex, domain_nr,
          use_dt_domains, buses, pc, host, args, udt, preList, preBusn, served,
                   declared_seen, dt_accepted, kfreed, teardown, pool,
          xl_windows, xl_res, xl_region, xl_out, xl_pc,
          bn_list, bn_bus, bn_out, bn_pc,
          phb_mutex, phb_bridge_list, phb_bridges, phb_pc, phb_host>>

xl_vars == <<xl_windows, xl_res, xl_region, xl_out, xl_pc>>

bn_vars == <<bn_list, bn_bus, bn_out, bn_pc>>

phb_vars == <<phb_mutex, phb_bridge_list, phb_bridges, phb_pc, phb_host>>

\* ------------------------------------------------------------ list helpers
RECURSIVE FirstBusn(_, _)
\* pci_busn_resource(): index of the first bus-number entry, 0 = NULL
FirstBusn(ws, i) ==
    IF i > Len(ws) THEN 0
    ELSE IF ws[i].type = "bus" THEN i
    ELSE FirstBusn(ws, i + 1)

pci_busn_resource(ws) == FirstBusn(ws, 1)

RECURSIVE LastBusnFrom(_, _, _)
\* the loops of pci_host_busn_res_overlap keep the last bus-number entry
LastBusnFrom(ws, i, found) ==
    IF i > Len(ws) THEN found
    ELSE LastBusnFrom(ws, i + 1, IF ws[i].type = "bus" THEN i ELSE found)

LastBusn(ws) == LastBusnFrom(ws, 1, 0)

resource_overlaps(s1, e1, s2, e2) == s1 <= e2 /\ e1 >= s2

SeqRemove(l, x) == SelectSeq(l, LAMBDA y : y # x)
InList(b) == \E i \in 1..Len(pci_host_bridge_list) : pci_host_bridge_list[i] = b

NoBridge == [st |-> "unalloc", domain |-> 0, windows |-> <<>>, dynamic_busn |-> FALSE,
             release_fn |-> FALSE]
\* a kfree'ed bridge: its memory holds nothing of the bridge any more
FreedBridge == [NoBridge EXCEPT !.st = "freed"]
NoArgs == [domain |-> 0, dt |-> -1, bus |-> 0, dyn |-> FALSE]
NoKfree == [busn |-> 0, windows |-> 0, bridge |-> 0]

Live(b) == bridges[b].st \in {"new", "registered", "dying"}

\* pci_find_bus(domain, i): a live bus with that number in that domain
pci_find_bus(domain, i) ==
    \E x \in buses : bridges[x[1]].domain = domain /\ x[2] = i

\* ------------------------------------------------ bus-number resource manager
\* mutant: the start is set to bus also when bus is below it
pci_host_update_busn_res_set(ws, bus) ==
    LET i == FirstBusn(ws, 1) IN
    IF i # 0
    THEN [ws EXCEPT ![i].start = bus]
    ELSE Append(ws, Window("bus", bus, BusMax, 0))

\* pci_host_update_busn_res(): raise the start of the first bus-number window
\* to bus, or append the bridge's own busn_res [bus, 255]
pci_host_update_busn_res(ws, bus) ==
    LET i == FirstBusn(ws, 1) IN
    IF i # 0
    THEN IF bus > ws[i].start THEN [ws EXCEPT ![i].start = bus] ELSE ws
    ELSE Append(ws, Window("bus", bus, BusMax, 0))

\* the caller-side synthesis of the revision that has dynamic_busn: a separately
\* allocated [bus, 255] window is appended when the list has none
SynthesizeBusn(ws, bus) ==
    IF FirstBusn(ws, 1) # 0 THEN ws ELSE Append(ws, Window("bus", bus, BusMax, 0))

\* the caller of that revision marks the window it synthesized, so that
\* pci_release_host_bridge_dev() frees it
SetDynamicBusn(dyn) == rev = "check" /\ dyn

\* ------------------------------------------------------- domain allocator
\* mutant: the counter is read without being incremented
pci_get_new_domain_nr_noinc(counter) == counter

\* pci_get_new_domain_nr(): atomic_inc_return(&__domain_nr)
pci_get_new_domain_nr(counter) == counter + 1

\* mutant: a DT value is taken whatever use_dt_domains says
pci_assign_domain_nr_nolatch(dt, latch, counter) ==
    IF dt >= 0
    THEN [domain |-> dt, latch |-> 1, counter |-> counter, kind |-> "dt"]
    ELSE IF dt < 0 /\ latch # 1
    THEN [domain |-> pci_get_new_domain_nr(counter), latch |-> 0,
          counter |-> pci_get_new_domain_nr(counter), kind |-> "counter"]
    ELSE [domain |-> -1, latch |-> latch, counter |-> counter, kind |-> "error"]

\* pci_assign_domain_nr(): decided on the DT value and the value read from
\* use_dt_domains; gives the domain, the new latch and the new counter
pci_assign_domain_nr(dt, latch, counter) ==
    IF dt >= 0 /\ latch # 0
    THEN [domain |-> dt, latch |-> 1, counter |-> counter, kind |-> "dt"]
    ELSE IF dt < 0 /\ latch # 1
    THEN [domain |-> pci_get_new_domain_nr(counter), latch |-> 0,
          counter |-> pci_get_new_domain_nr(counter), kind |-> "counter"]
    ELSE [domain |-> -1, latch |-> latch, counter |-> counter, kind |-> "error"]

\* --------------------------------------------------- conflict resolution
\* mutant: equal starts are not rejected
pci_host_busn_res_check_noeq(ns, ne, os, oe, domain) ==
    IF ~resource_overlaps(ns, ne, os, oe)
    THEN [rc |-> "ok", ne |-> ne, oe |-> oe]
    ELSE IF ns < os
    THEN [rc |-> "ok", ne |-> os - 1, oe |-> oe]
    ELSE IF \E i \in ns..(oe - ns) : pci_find_bus(domain, i)
    THEN [rc |-> "ENOSPC", ne |-> ne, oe |-> oe]
    ELSE [rc |-> "ok", ne |-> ne, oe |-> ns - 1]

\* mutant: the existing bridge is narrowed to end at new.start
pci_host_busn_res_check_off(ns, ne, os, oe, domain) ==
    IF ~resource_overlaps(ns, ne, os, oe)
    THEN [rc |-> "ok", ne |-> ne, oe |-> oe]
    ELSE IF ns = os
    THEN [rc |-> "ENOSPC", ne |-> ne, oe |-> oe]
    ELSE IF ns < os
    THEN [rc |-> "ok", ne |-> os - 1, oe |-> oe]
    ELSE IF \E i \in ns..(oe - ns) : pci_find_bus(domain, i)
    THEN [rc |-> "ENOSPC", ne |-> ne, oe |-> oe]
    ELSE [rc |-> "ok", ne |-> ne, oe |-> ns]

\* mutant: the new bridge is not narrowed when it starts below the old one
pci_host_busn_res_check_keep(ns, ne, os, oe, domain) ==
    IF ~resource_overlaps(ns, ne, os, oe)
    THEN [rc |-> "ok", ne |-> ne, oe |-> oe]
    ELSE IF ns = os
    THEN [rc |-> "ENOSPC", ne |-> ne, oe |-> oe]
    ELSE IF ns < os
    THEN [rc |-> "ok", ne |-> ne, oe |-> oe]
    ELSE IF \E i \in ns..(oe - ns) : pci_find_bus(domain, i)
    THEN [rc |-> "ENOSPC", ne |-> ne, oe |-> oe]
    ELSE [rc |-> "ok", ne |-> ne, oe |-> ns - 1]

\* mutant: the new bridge is cut to end at the old start, not below it
pci_host_busn_res_check_incl(ns, ne, os, oe, domain) ==
    IF ~resource_overlaps(ns, ne, os, oe)
    THEN [rc |-> "ok", ne |-> ne, oe |-> oe]
    ELSE IF ns = os
    THEN [rc |-> "ENOSPC", ne |-> ne, oe |-> oe]
    ELSE IF ns < os
    THEN [rc |-> "ok", ne |-> os, oe |-> oe]
    ELSE IF \E i \in ns..(oe - ns) : pci_find_bus(domain, i)
    THEN [rc |-> "ENOSPC", ne |-> ne, oe |-> oe]
    ELSE [rc |-> "ok", ne |-> ne, oe |-> ns - 1]

\* pci_host_busn_res_check() on new = [ns, ne] and old = [os, oe]
pci_host_busn_res_check(ns, ne, os, oe, domain) ==
    IF ~resource_overlaps(ns, ne, os, oe)
    THEN [rc |-> "ok", ne |-> ne, oe |-> oe]
    ELSE IF ns = os
    THEN [rc |-> "ENOSPC", ne |-> ne, oe |-> oe]
    ELSE IF ns < os
    THEN [rc |-> "ok", ne |-> os - 1, oe |-> oe]
    ELSE IF \E i \in ns..(oe - ns) : pci_find_bus(domain, i)
    THEN [rc |-> "ENOSPC", ne |-> ne, oe |-> oe]
    ELSE [rc |-> "ok", ne |-> ne, oe |-> ns - 1]

\* pci_host_busn_res_overlap(): any overlap is a conflict
pci_host_busn_res_overlap(ns, ne, os, oe) == resource_overlaps(os, oe, ns, ne)

RECURSIVE ScanList(_, _, _, _, _, _)
\* list_for_each_entry(tmp, &pci_host_bridge_list, list) of
\* pci_create_host_bridge: view[b] is what the scan reads from entry b,
\* ends[b] the end of b's bus-number window as written so far
ScanList(i, view, domain, ns, ne, ends) ==
    IF i > Len(pci_host_bridge_list)
    THEN [rc |-> "ok", ne |-> ne, ends |-> ends]
    ELSE LET tmp == pci_host_bridge_list[i] IN
         IF view[tmp].domain # domain
         THEN ScanList(i + 1, view, domain, ns, ne, ends)
         ELSE IF rev = "overlap"
         THEN IF pci_host_busn_res_overlap(ns, ne, view[tmp].lstart, view[tmp].lend)
              THEN [rc |-> "ENOSPC", ne |-> ne, ends |-> ends]
              ELSE ScanList(i + 1, view, domain, ns, ne, ends)
         ELSE LET r == pci_host_busn_res_check(ns, ne, view[tmp].start, ends[tmp], domain) IN
              IF r.rc # "ok"
              THEN [rc |-> r.rc, ne |-> r.ne, ends |-> [ends EXCEPT ![tmp] = r.oe]]
              ELSE ScanList(i + 1, view, domain, ns, r.ne, [ends EXCEPT ![tmp] = r.oe])

\* what a read of bridge b's domain and bus-number window gives
BusnView(b) ==
    LET ws == bridges[b].windows
        f == FirstBusn(ws, 1)
        l == LastBusn(ws) IN
    [domain |-> bridges[b].domain,
     start |-> IF f = 0 THEN 0 ELSE ws[f].start,
     end |-> IF f = 0 THEN 0 ELSE ws[f].end,
     lstart |-> IF l = 0 THEN 0 ELSE ws[l].start,
     lend |-> IF l = 0 THEN 0 ELSE ws[l].end]

\* the bus-number window of every live bridge of the list, as the caller of
\* pci_create_host_bridge finds the registry
NoBusn == [b \in BridgeIds |-> <<0, 0>>]
ListedBusn ==
    [b \in BridgeIds |->
        IF InList(b) /\ Live(b) THEN <<BusnView(b).start, BusnView(b).end>> ELSE <<0, 0>>]

\* entries of the list whose bridge has been kfree'ed
Dangling == {b \in BridgeIds : InList(b) /\ bridges[b].st = "freed"}

\* a read of kfree'ed memory: the old contents or whatever replaced them
GarbageViews ==
    {[domain |-> d, start |-> r[1], end |-> r[2], lstart |-> r[1],
      lend |-> r[2]] : d \in 0..MaxDomain, r \in BusRanges}

\* mutant: the end is written to the first window, whatever its type
SetBusnEnd_first(ws, e) ==
    IF ws = <<>> THEN ws ELSE [ws EXCEPT ![1].end = e]

\* res->end = e on the bus-number resource pci_busn_resource() finds
SetBusnEnd(ws, e) ==
    LET i == FirstBusn(ws, 1) IN IF i = 0 THEN ws ELSE [ws EXCEPT ![i].end = e]

\* mutant: the synthesized bus-number resource is not kfree'ed
ReleaseCounts_leak(b) ==
    LET k == kfreed[b] IN
    [busn |-> k.busn, windows |-> k.windows + 1, bridge |-> k.bridge + 1]

\* pci_release_host_bridge_dev(): the kfree calls it makes on bridge b
ReleaseCounts(b) ==
    LET k == kfreed[b]
        busn == IF rev = "check" /\ bridges[b].dynamic_busn THEN 1 ELSE 0 IN
    [busn |-> k.busn + busn, windows |-> k.windows + 1, bridge |-> k.bridge + 1]

\* mutant: the bridge is kfree'ed before its windows are released and the
\* release callback runs last
pci_release_host_bridge_dev_late(b) ==
    (IF rev = "check" /\ bridges[b].dynamic_busn THEN <<"kfree_busn">> ELSE <<>>)
    \o <<"kfree_bridge", "free_windows">>
    \o (IF bridges[b].release_fn THEN <<"release_fn">> ELSE <<>>)

\* pci_release_host_bridge_dev(): the steps it runs on bridge b, in order
pci_release_host_bridge_dev(b) ==
    (IF bridges[b].release_fn THEN <<"release_fn">> ELSE <<>>)
    \o (IF rev = "check" /\ bridges[b].dynamic_busn THEN <<"kfree_busn">> ELSE <<>>)
    \o <<"free_windows", "kfree_bridge">>

\* free_res: the steps it runs, in order
FreeResSteps == <<"free_windows", "kfree_bridge">>

\* free_res: pci_free_resource_list(&host->windows); kfree(host)
FreeResCounts(b) ==
    LET k == kfreed[b] IN
    [busn |-> k.busn, windows |-> k.windows + 1, bridge |-> k.bridge + 1]

\* ------------------------------------------------------ address translation
\* resource_size_t arithmetic is unsigned and wraps
AddrMod == MaxAddr + 1
Addrs == 0..MaxAddr
Wrap(x) == x % AddrMod

Range(s, e) == [start |-> s, end |-> e]
NoRange == Range(0, 0)

\* resource_contains(r1, r2): the CPU range of r1 fully contains r2
resource_contains(w, res) == w.start <= res.start /\ w.end >= res.end

\* region_contains(region1, region2)
region_contains(region1, region2) ==
    region1.start <= region2.start /\ region1.end >= region2.end

RECURSIVE ResourceToBusOffset_last(_, _, _)
\* mutant: the loop does not break, the last window that contains res wins
ResourceToBusOffset_last(ws, i, res) ==
    IF i > Len(ws) THEN 0
    ELSE LET rest == ResourceToBusOffset_last(ws, i + 1, res) IN
         IF resource_contains(ws[i], res) /\ ~(\E k \in (i + 1)..Len(ws) :
                                                 resource_contains(ws[k], res))
         THEN ws[i].offset
         ELSE rest

\* mutant: without a match the offset of the first window is taken
ResourceToBusOffset_dflt(ws, i, res) ==
    IF \E k \in i..Len(ws) : resource_contains(ws[k], res)
    THEN LET f == CHOOSE k \in i..Len(ws) :
                    /\ resource_contains(ws[k], res)
                    /\ \A m \in i..(k - 1) : ~resource_contains(ws[m], res)
         IN ws[f].offset
    ELSE IF Len(ws) >= 1 THEN ws[1].offset ELSE 0

RECURSIVE ResourceToBusOffset(_, _, _)
\* the loop of pcibios_resource_to_bus(): the offset of the first window
\* that contains res, 0 when there is none
ResourceToBusOffset(ws, i, res) ==
    IF i > Len(ws) THEN 0
    ELSE IF resource_contains(ws[i], res) THEN ws[i].offset
    ELSE ResourceToBusOffset(ws, i + 1, res)

pcibios_resource_to_bus(ws, res) ==
    LET offset == ResourceToBusOffset(ws, 1, res) IN
    Range(Wrap(res.start - offset), Wrap(res.end - offset))

\* bus_region of a window: (res->start - offset, res->end - offset)
BusRegion(w) == Range(Wrap(w.start - w.offset), Wrap(w.end - w.offset))

RECURSIVE BusToResourceOffset(_, _, _, _)
\* the loop of pcibios_bus_to_resource(): the offset of the first window of
\* the resource's type whose bus region contains region, 0 when there is none
BusToResourceOffset(ws, i, type, region) ==
    IF i > Len(ws) THEN 0
    ELSE IF type # ws[i].type THEN BusToResourceOffset(ws, i + 1, type, region)
    ELSE IF region_contains(BusRegion(ws[i]), region) THEN ws[i].offset
    ELSE BusToResourceOffset(ws, i + 1, type, region)

\* mutant: the offset is subtracted on the way back as well
pcibios_bus_to_resource_sub(ws, type, region) ==
    LET offset == BusToResourceOffset(ws, 1, type, region) IN
    Range(Wrap(region.start - offset), Wrap(region.end - offset))

pcibios_bus_to_resource(ws, type, region) ==
    LET offset == BusToResourceOffset(ws, 1, type, region) IN
    Range(Wrap(region.start + offset), Wrap(region.end + offset))

XlTypes == {"mem", "io"}
XlWindows ==
    {Window(t, s, e, o) : t \in XlTypes, s \in Addrs, e \in Addrs, o \in Addrs}
ValidWindows == {w \in XlWindows : w.start <= w.end}
WindowStores == UNION {[1..n -> ValidWindows] : n \in 0..MaxWindows}
XlResources == {r \in [type : XlTypes, start : Addrs, end : Addrs] : r.start <= r.end}
XlRegions == {Range(a, b) : a \in Addrs, b \in Addrs} \ {r \in [start : Addrs, end : Addrs] : r.start > r.end}

XlIdle ==
    /\ xl_windows = <<>>
    /\ xl_res = [type |-> "mem", start |-> 0, end |-> 0]
    /\ xl_region = NoRange
    /\ xl_out = NoRange
    /\ xl_pc = "off"

BnIdle ==
    /\ bn_list = <<>>
    /\ bn_bus = 0
    /\ bn_out = <<>>
    /\ bn_pc = "off"

NoPhbBridge == [st |-> "unalloc", domain |-> 0, busnum |-> 0, windows |-> FALSE]

PhbIdle ==
    /\ phb_mutex = 0
    /\ phb_bridge_list = <<>>
    /\ phb_bridges = [b \in BridgeIds |-> NoPhbBridge]
    /\ phb_pc = [p \in Procs |-> "off"]
    /\ phb_host = [p \in Procs |-> 0]

\* ------------------------------------------------------------------ Init
InitCommon ==
    /\ rev \in {"overlap", "check"}
    /\ generic \in BOOLEAN
    /\ XlIdle
    /\ BnIdle
    /\ PhbIdle
    /\ bridges = [b \in BridgeIds |-> NoBridge]
    /\ pci_host_bridge_list = <<>>
    /\ pci_host_mutex = 0
    /\ domain_nr = -1
    /\ use_dt_domains = -1
    /\ buses = {}
    /\ pc = [p \in Procs |-> "idle"]
    /\ host = [p \in Procs |-> 0]
    /\ args = [p \in Procs |-> NoArgs]
    /\ udt = [p \in Procs |-> -1]
    /\ preList = [p \in Procs |-> <<>>]
    /\ preBusn = [p \in Procs |-> NoBusn]
    /\ served = <<>>
    /\ declared_seen = FALSE
    /\ dt_accepted = FALSE
    /\ kfreed = [b \in BridgeIds |-> NoKfree]
    /\ teardown = [b \in BridgeIds |-> <<>>]

\* concurrent callers, MaxRacing bridge objects
Init == InitCommon /\ pool = MaxRacing

\* one caller, MaxBridges bridge objects
InitSeq == InitCommon /\ pool = MaxBridges

Unalloc == {b \in 1..pool : bridges[b].st = "unalloc"}
NextSlot == CHOOSE b \in Unalloc : \A c \in Unalloc : b <= c

\* the caller's inputs of one create: the resource list as handed to
\* pci_create_host_bridge, the requested bus, and whether the bus-number
\* window was synthesized by the caller
CallInputs ==
    IF rev = "overlap"
    THEN {[res |-> r, bus |-> n, dyn |-> FALSE] : r \in ResourceLists, n \in BusChoices}
    ELSE {[res |-> r, bus |-> r[Len(r)].start, dyn |-> FALSE] : r \in ResourceLists}
         \cup {[res |-> SynthesizeBusn(<<MemWindow>>, n), bus |-> n, dyn |-> TRUE] :
                 n \in BusChoices}

\* pci_create_host_bridge() up to pci_host_assign_domain_nr(): the bus-number
\* lookup or update, kzalloc, and the move of the windows into the host
CreateCall(p) ==
    /\ pc[p] = "idle"
    /\ Unalloc # {}
    /\ \E in \in CallInputs, dom \in 0..MaxDomain, dt \in -1..MaxDomain, mem \in BOOLEAN :
         /\ generic => dom = 0
         /\ ~generic => dt = -1
         /\ IF (rev = "check" /\ pci_busn_resource(in.res) = 0) \/ ~mem
            THEN UNCHANGED <<bridges, pc, host, args, preList, preBusn, declared_seen>>
            ELSE LET h == NextSlot
                     ws == IF rev = "overlap"
                           THEN pci_host_update_busn_res(in.res, in.bus)
                           ELSE in.res
                IN
                 /\ bridges' = [bridges EXCEPT ![h] =
                        [st |-> "new", domain |-> dom, windows |-> ws,
                         dynamic_busn |-> FALSE, release_fn |-> FALSE]]
                 /\ host' = [host EXCEPT ![p] = h]
                 /\ args' = [args EXCEPT ![p] =
                        [domain |-> dom, dt |-> dt, bus |-> in.bus,
                         dyn |-> (in.dyn \/ pci_busn_resource(in.res) = 0)]]
                 /\ preList' = [preList EXCEPT ![p] = pci_host_bridge_list]
                 /\ preBusn' = [preBusn EXCEPT ![p] = ListedBusn]
                 /\ declared_seen' = (declared_seen \/ dt >= 0)
                 /\ pc' = [pc EXCEPT ![p] = IF generic THEN "assign_rd" ELSE "lock"]
    /\ UNCHANGED <<xl_vars, bn_vars, phb_vars>>
    /\ UNCHANGED <<rev, generic, pci_host_bridge_list, pci_host_mutex, domain_nr,
                   use_dt_domains, buses, udt, served, dt_accepted, kfreed, teardown, pool>>

\* pci_assign_domain_nr(): the read of use_dt_domains
AssignRead(p) ==
    /\ pc[p] = "assign_rd"
    /\ udt' = [udt EXCEPT ![p] = use_dt_domains]
    /\ pc' = [pc EXCEPT ![p] = "assign_wr"]
    /\ UNCHANGED <<xl_vars, bn_vars, phb_vars>>
    /\ UNCHANGED <<rev, generic, bridges, pci_host_bridge_list, pci_host_mutex, domain_nr,
                   use_dt_domains, buses, host, args, preList, preBusn, served,
                   declared_seen, dt_accepted, kfreed, teardown, pool>>

\* pci_assign_domain_nr(): the branch taken on the value read, its write of
\* use_dt_domains and the atomic increment; host->domain = the result
AssignWrite(p) ==
    /\ pc[p] = "assign_wr"
    /\ LET r == pci_assign_domain_nr(args[p].dt, udt[p], domain_nr) IN
         /\ use_dt_domains' = IF r.kind = "error" THEN use_dt_domains ELSE r.latch
         /\ domain_nr' = r.counter
         /\ bridges' = [bridges EXCEPT ![host[p]].domain = r.domain]
         /\ served' = IF r.kind = "counter" THEN Append(served, r.domain) ELSE served
         /\ dt_accepted' = (dt_accepted \/ r.kind = "dt")
    /\ udt' = [udt EXCEPT ![p] = -1]
    /\ pc' = [pc EXCEPT ![p] = "lock"]
    /\ UNCHANGED <<xl_vars, bn_vars, phb_vars>>
    /\ UNCHANGED <<rev, generic, pci_host_bridge_list, pci_host_mutex, buses, host, args,
                   preList, preBusn, declared_seen, kfreed, teardown, pool>>

\* mutex_lock(); list_for_each_entry() with the conflict check; on success
\* list_add_tail()
LockScan(p) ==
    /\ pc[p] = "lock"
    /\ pci_host_mutex = 0
    /\ \E g \in [Dangling -> GarbageViews] :
         LET h == host[p]
             view == [b \in BridgeIds |->
                        IF b \in Dangling THEN g[b] ELSE BusnView(b)]
             mine == BusnView(h)
             ns == IF rev = "overlap" THEN mine.lstart ELSE mine.start
             ne == IF rev = "overlap" THEN mine.lend ELSE mine.end
             r == ScanList(1, view, bridges[h].domain, ns, ne,
                           [b \in BridgeIds |-> view[b].end]) IN
         /\ bridges' = [b \in BridgeIds |->
                IF b = h
                THEN [bridges[b] EXCEPT !.windows =
                        IF rev = "check" THEN SetBusnEnd(@, r.ne) ELSE @]
                ELSE IF InList(b) /\ Live(b) /\ rev = "check"
                THEN [bridges[b] EXCEPT !.windows = SetBusnEnd(@, r.ends[b])]
                ELSE bridges[b]]
         /\ IF r.rc = "ok"
            THEN /\ pci_host_bridge_list' = Append(pci_host_bridge_list, h)
                 /\ pc' = [pc EXCEPT ![p] = "unlock_ok"]
            ELSE /\ UNCHANGED pci_host_bridge_list
                 /\ pc' = [pc EXCEPT ![p] = "unlock_fail"]
    /\ pci_host_mutex' = p
    /\ UNCHANGED <<xl_vars, bn_vars, phb_vars>>
    /\ UNCHANGED <<rev, generic, domain_nr, use_dt_domains, buses, host, args, udt,
                   preList, preBusn, served,
                   declared_seen, dt_accepted, kfreed, teardown, pool>>

UnlockTarget(at) ==
    CASE at = "unlock_ok" -> "prepare"
      [] at = "unlock_fail" -> "free_res"
      [] at = "list_del_unlock" -> "free_res"
      [] at = "f_unlock" -> "f_unreg"

\* mutant: the mutex is left locked
mutex_unlock_kept(holder) == holder

\* mutex_unlock(): the mutex has no holder afterwards
mutex_unlock(holder) == 0

\* mutex_unlock(&pci_host_mutex)
Unlock(p) ==
    /\ pc[p] \in {"unlock_ok", "unlock_fail", "list_del_unlock", "f_unlock"}
    /\ pci_host_mutex = p
    /\ pci_host_mutex' = mutex_unlock(pci_host_mutex)
    /\ pc' = [pc EXCEPT ![p] = UnlockTarget(pc[p])]
    /\ UNCHANGED <<xl_vars, bn_vars, phb_vars>>
    /\ UNCHANGED <<rev, generic, bridges, pci_host_bridge_list, domain_nr, use_dt_domains,
                   buses, host, args, udt, preList, preBusn, served,
                   declared_seen, dt_accepted, kfreed, teardown, pool>>

\* host->ops->prepare(host), when set
Prepare(p) ==
    /\ pc[p] = "prepare"
    /\ \E outcome \in {"none", "ok", "error"} :
         pc' = [pc EXCEPT ![p] = IF outcome = "error" THEN "list_del" ELSE "register"]
    /\ UNCHANGED <<xl_vars, bn_vars, phb_vars>>
    /\ UNCHANGED <<rev, generic, bridges, pci_host_bridge_list, pci_host_mutex, domain_nr,
                   use_dt_domains, buses, host, args, udt, preList, preBusn, served,
                   declared_seen, dt_accepted, kfreed, teardown, pool>>

\* device_register(); on error put_device(), which runs
\* pci_release_host_bridge_dev(); otherwise return host (the caller of the
\* revision with dynamic_busn then sets the flag of a synthesized window)
Register(p) ==
    /\ pc[p] = "register"
    /\ \E error \in BOOLEAN :
         IF error
         THEN /\ bridges' = [bridges EXCEPT ![host[p]] = FreedBridge]
              /\ kfreed' = [kfreed EXCEPT ![host[p]] = ReleaseCounts(host[p])]
              /\ teardown' = [teardown EXCEPT ![host[p]] =
                                 @ \o pci_release_host_bridge_dev(host[p])]
         ELSE /\ bridges' = [bridges EXCEPT ![host[p]].st = "registered",
                                            ![host[p]].dynamic_busn =
                                                SetDynamicBusn(args[p].dyn)]
              /\ UNCHANGED <<kfreed, teardown>>
    /\ pc' = [pc EXCEPT ![p] = "idle"]
    /\ host' = [host EXCEPT ![p] = 0]
    /\ args' = [args EXCEPT ![p] = NoArgs]
    /\ preList' = [preList EXCEPT ![p] = <<>>]
    /\ preBusn' = [preBusn EXCEPT ![p] = NoBusn]
    /\ UNCHANGED <<xl_vars, bn_vars, phb_vars>>
    /\ UNCHANGED <<rev, generic, pci_host_bridge_list, pci_host_mutex, domain_nr,
                   use_dt_domains, buses, udt, served, declared_seen, dt_accepted, pool>>

\* list_del: mutex_lock(); list_del(&host->list)
ListDel(p) ==
    /\ pc[p] = "list_del"
    /\ pci_host_mutex = 0
    /\ pci_host_mutex' = p
    /\ pci_host_bridge_list' = SeqRemove(pci_host_bridge_list, host[p])
    /\ pc' = [pc EXCEPT ![p] = "list_del_unlock"]
    /\ UNCHANGED <<xl_vars, bn_vars, phb_vars>>
    /\ UNCHANGED <<rev, generic, bridges, domain_nr, use_dt_domains, buses, host, args,
                   udt, preList, preBusn, served,
                   declared_seen, dt_accepted, kfreed, teardown, pool>>

\* free_res: pci_free_resource_list(); kfree(host); return NULL
FreeRes(p) ==
    /\ pc[p] = "free_res"
    /\ bridges' = [bridges EXCEPT ![host[p]] = FreedBridge]
    /\ kfreed' = [kfreed EXCEPT ![host[p]] = FreeResCounts(host[p])]
    /\ teardown' = [teardown EXCEPT ![host[p]] = @ \o FreeResSteps]
    /\ pc' = [pc EXCEPT ![p] = "idle"]
    /\ host' = [host EXCEPT ![p] = 0]
    /\ args' = [args EXCEPT ![p] = NoArgs]
    /\ preList' = [preList EXCEPT ![p] = <<>>]
    /\ preBusn' = [preBusn EXCEPT ![p] = NoBusn]
    /\ UNCHANGED <<xl_vars, bn_vars, phb_vars>>
    /\ UNCHANGED <<rev, generic, pci_host_bridge_list, pci_host_mutex, domain_nr,
                   use_dt_domains, buses, udt, served, declared_seen, dt_accepted, pool>>

\* pci_free_host_bridge(): mutex_lock(); list_del(&host->list). The caller
\* has removed the bridge's buses before.
FreeLockDel(p) ==
    /\ pc[p] = "idle"
    /\ pci_host_mutex = 0
    /\ \E b \in BridgeIds :
         /\ bridges[b].st = "registered"
         /\ bridges' = [bridges EXCEPT ![b].st = "dying"]
         /\ buses' = {x \in buses : x[1] # b}
         /\ pci_host_bridge_list' = SeqRemove(pci_host_bridge_list, b)
         /\ host' = [host EXCEPT ![p] = b]
    /\ pci_host_mutex' = p
    /\ pc' = [pc EXCEPT ![p] = "f_unlock"]
    /\ UNCHANGED <<xl_vars, bn_vars, phb_vars>>
    /\ UNCHANGED <<rev, generic, domain_nr, use_dt_domains, args, udt, preList, preBusn,
                   served, declared_seen, dt_accepted, kfreed, teardown, pool>>

\* pci_free_host_bridge(): device_unregister(), whose last put runs
\* pci_release_host_bridge_dev()
FreeUnregister(p) ==
    /\ pc[p] = "f_unreg"
    /\ bridges' = [bridges EXCEPT ![host[p]] = FreedBridge]
    /\ kfreed' = [kfreed EXCEPT ![host[p]] = ReleaseCounts(host[p])]
    /\ teardown' = [teardown EXCEPT ![host[p]] =
                       @ \o pci_release_host_bridge_dev(host[p])]
    /\ pc' = [pc EXCEPT ![p] = "idle"]
    /\ host' = [host EXCEPT ![p] = 0]
    /\ UNCHANGED <<xl_vars, bn_vars, phb_vars>>
    /\ UNCHANGED <<rev, generic, pci_host_bridge_list, pci_host_mutex, domain_nr,
                   use_dt_domains, buses, args, udt, preList, preBusn, served, declared_seen,
                   dt_accepted, pool>>

\* the bus scan below a registered bridge brings up a bus whose number lies
\* in the bridge's bus-number window
AddBus ==
    /\ Cardinality(buses) < MaxBuses
    /\ \E b \in BridgeIds, n \in BusChoices :
         /\ bridges[b].st = "registered"
         /\ BusnView(b).start <= n /\ n <= BusnView(b).end
         /\ buses' = buses \cup {<<b, n>>}
    /\ UNCHANGED <<xl_vars, bn_vars, phb_vars>>
    /\ UNCHANGED <<rev, generic, bridges, pci_host_bridge_list, pci_host_mutex, domain_nr,
                   use_dt_domains, pc, host, args, udt, preList, preBusn, served,
                   declared_seen, dt_accepted, kfreed, teardown, pool>>

\* pci_set_host_bridge_release(bridge, release_fn, release_data) by the
\* owner of a bridge that pci_create_host_bridge returned
pci_set_host_bridge_release ==
    /\ \E b \in BridgeIds :
         /\ bridges[b].st = "registered"
         /\ ~bridges[b].release_fn
         /\ bridges' = [bridges EXCEPT ![b].release_fn = TRUE]
    /\ UNCHANGED <<xl_vars, bn_vars, phb_vars>>
    /\ UNCHANGED <<rev, generic, pci_host_bridge_list, pci_host_mutex, domain_nr,
                   use_dt_domains, buses, pc, host, args, udt, preList, preBusn, served,
                   declared_seen, dt_accepted, kfreed, teardown, pool>>

Step(p) ==
    \/ CreateCall(p)
    \/ AssignRead(p)
    \/ AssignWrite(p)
    \/ LockScan(p)
    \/ Unlock(p)
    \/ Prepare(p)
    \/ Register(p)
    \/ ListDel(p)
    \/ FreeRes(p)
    \/ FreeLockDel(p)
    \/ FreeUnregister(p)

Next == (\E p \in Procs : Step(p)) \/ AddBus \/ pci_set_host_bridge_release

Spec == Init /\ [][Next]_vars

\* one caller: every call runs to its return before the next begins; no
\* release callback is installed
NextSeq == Step(1) \/ AddBus

SpecSeq == InitSeq /\ [][NextSeq]_vars

\* ----------------------------------------- the translation functions alone
reg_vars == <<rev, generic, bridges, pci_host_bridge_list, pci_host_mutex, domain_nr,
              use_dt_domains, buses, pc, host, args, udt, preList, preBusn, served,
              declared_seen, dt_accepted, kfreed, teardown, pool>>

InitXlate ==
    /\ rev = "check"
    /\ generic = FALSE
    /\ bridges = [b \in BridgeIds |-> NoBridge]
    /\ pci_host_bridge_list = <<>>
    /\ pci_host_mutex = 0
    /\ domain_nr = -1
    /\ use_dt_domains = -1
    /\ buses = {}
    /\ pc = [p \in Procs |-> "idle"]
    /\ host = [p \in Procs |-> 0]
    /\ args = [p \in Procs |-> NoArgs]
    /\ udt = [p \in Procs |-> -1]
    /\ preList = [p \in Procs |-> <<>>]
    /\ preBusn = [p \in Procs |-> NoBusn]
    /\ served = <<>>
    /\ declared_seen = FALSE
    /\ dt_accepted = FALSE
    /\ kfreed = [b \in BridgeIds |-> NoKfree]
    /\ teardown = [b \in BridgeIds |-> <<>>]
    /\ pool = 0
    /\ xl_windows \in WindowStores
    /\ xl_res \in XlResources
    /\ xl_region = NoRange
    /\ xl_out = NoRange
    /\ xl_pc = "start"
    /\ BnIdle
    /\ PhbIdle

\* pcibios_resource_to_bus(bus, &region, res)
ResourceToBus ==
    /\ xl_pc = "start"
    /\ xl_region' = pcibios_resource_to_bus(xl_windows, xl_res)
    /\ xl_pc' = "region"
    /\ UNCHANGED <<xl_windows, xl_res, xl_out>>
    /\ UNCHANGED <<reg_vars, bn_vars, phb_vars>>

\* pcibios_bus_to_resource(bus, res, &region) on the region just computed
BusToResource ==
    /\ xl_pc = "region"
    /\ xl_out' = pcibios_bus_to_resource(xl_windows, xl_res.type, xl_region)
    /\ xl_pc' = "resource"
    /\ UNCHANGED <<xl_windows, xl_res, xl_region>>
    /\ UNCHANGED <<reg_vars, bn_vars, phb_vars>>

\* pcibios_bus_to_resource(bus, res, &region) on a region of the caller's
BusToResourceDirect ==
    /\ xl_pc = "start"
    /\ \E region \in XlRegions :
         /\ xl_region' = region
         /\ xl_out' = pcibios_bus_to_resource(xl_windows, xl_res.type, region)
    /\ xl_pc' = "direct"
    /\ UNCHANGED <<xl_windows, xl_res>>
    /\ UNCHANGED <<reg_vars, bn_vars, phb_vars>>

NextXlate == ResourceToBus \/ BusToResource \/ BusToResourceDirect

SpecXlate == InitXlate /\ [][NextXlate]_vars

\* ------------------------------------- the bus-number resource manager alone
\* the bus-number windows a caller may put into its list
BnBuses == {0, 5, 10, BusMax}
BnWindows ==
    {MemWindow} \cup {Window("bus", a, b, 0) : a \in BnBuses, b \in BnBuses}
ValidBnWindows == {w \in BnWindows : w.start <= w.end}
BnLists == UNION {[1..n -> ValidBnWindows] : n \in 0..MaxWindows}

InitBusn ==
    /\ rev = "overlap"
    /\ generic = FALSE
    /\ bridges = [b \in BridgeIds |-> NoBridge]
    /\ pci_host_bridge_list = <<>>
    /\ pci_host_mutex = 0
    /\ domain_nr = -1
    /\ use_dt_domains = -1
    /\ buses = {}
    /\ pc = [p \in Procs |-> "idle"]
    /\ host = [p \in Procs |-> 0]
    /\ args = [p \in Procs |-> NoArgs]
    /\ udt = [p \in Procs |-> -1]
    /\ preList = [p \in Procs |-> <<>>]
    /\ preBusn = [p \in Procs |-> NoBusn]
    /\ served = <<>>
    /\ declared_seen = FALSE
    /\ dt_accepted = FALSE
    /\ kfreed = [b \in BridgeIds |-> NoKfree]
    /\ teardown = [b \in BridgeIds |-> <<>>]
    /\ pool = 0
    /\ XlIdle
    /\ bn_list \in BnLists
    /\ bn_bus \in BnBuses
    /\ bn_out = <<>>
    /\ bn_pc = "start"
    /\ PhbIdle

\* pci_host_update_busn_res(host, bus, resources)
UpdateBusnRes ==
    /\ bn_pc = "start"
    /\ bn_out' = pci_host_update_busn_res(bn_list, bn_bus)
    /\ bn_pc' = "done"
    /\ UNCHANGED <<bn_list, bn_bus>>
    /\ UNCHANGED <<reg_vars, xl_vars, phb_vars>>

NextBusn == UpdateBusnRes

SpecBusn == InitBusn /\ [][NextBusn]_vars

\* ------------------------ the revision that keys bridges by (domain, busnum)
\* PCI_BUSNUM(db) and PCI_DOMAIN(db) of the create calls of a run
PhbBuses == {0, 10}
PhbKeys == {<<d, n>> : d \in 0..MaxDomain, n \in PhbBuses}

InPhbList(b) == \E i \in 1..Len(phb_bridge_list) : phb_bridge_list[i] = b
PhbUnalloc == {b \in BridgeIds : phb_bridges[b].st = "unalloc"}
PhbNextSlot == CHOOSE b \in PhbUnalloc : \A c \in PhbUnalloc : b <= c

InitPhb ==
    /\ rev = "busnum"
    /\ generic = FALSE
    /\ bridges = [b \in BridgeIds |-> NoBridge]
    /\ pci_host_bridge_list = <<>>
    /\ pci_host_mutex = 0
    /\ domain_nr = -1
    /\ use_dt_domains = -1
    /\ buses = {}
    /\ pc = [p \in Procs |-> "idle"]
    /\ host = [p \in Procs |-> 0]
    /\ args = [p \in Procs |-> NoArgs]
    /\ udt = [p \in Procs |-> -1]
    /\ preList = [p \in Procs |-> <<>>]
    /\ preBusn = [p \in Procs |-> NoBusn]
    /\ served = <<>>
    /\ declared_seen = FALSE
    /\ dt_accepted = FALSE
    /\ kfreed = [b \in BridgeIds |-> NoKfree]
    /\ teardown = [b \in BridgeIds |-> <<>>]
    /\ pool = 0
    /\ XlIdle
    /\ BnIdle
    /\ phb_mutex = 0
    /\ phb_bridge_list = <<>>
    /\ phb_bridges = [b \in BridgeIds |-> NoPhbBridge]
    /\ phb_pc = [p \in Procs |-> "idle"]
    /\ phb_host = [p \in Procs |-> 0]

\* pci_create_host_bridge(parent, db, resources, sysdata, ops): kzalloc,
\* host->busnum = PCI_BUSNUM(db), host->domain = PCI_DOMAIN(db)
PhbCreateCall(p) ==
    /\ phb_pc[p] = "idle"
    /\ PhbUnalloc # {}
    /\ \E key \in PhbKeys, mem \in BOOLEAN :
         IF ~mem
         THEN UNCHANGED <<phb_bridges, phb_pc, phb_host>>
         ELSE /\ phb_bridges' = [phb_bridges EXCEPT ![PhbNextSlot] =
                    [st |-> "new", domain |-> key[1], busnum |-> key[2],
                     windows |-> FALSE]]
              /\ phb_host' = [phb_host EXCEPT ![p] = PhbNextSlot]
              /\ phb_pc' = [phb_pc EXCEPT ![p] = "scan"]
    /\ UNCHANGED <<phb_mutex, phb_bridge_list>>
    /\ UNCHANGED <<reg_vars, xl_vars, bn_vars>>

\* the scan for temp->domain == host->domain && temp->busnum == host->busnum
PhbDuplicate(h) ==
    \E i \in 1..Len(phb_bridge_list) :
        /\ phb_bridges[phb_bridge_list[i]].domain = phb_bridges[h].domain
        /\ phb_bridges[phb_bridge_list[i]].busnum = phb_bridges[h].busnum

\* mutex_lock(&phb_mutex); list_for_each_entry() looking for a duplicate
PhbLockScan(p) ==
    /\ phb_pc[p] = "scan"
    /\ phb_mutex = 0
    /\ phb_mutex' = p
    /\ phb_pc' = [phb_pc EXCEPT ![p] =
            IF PhbDuplicate(phb_host[p]) THEN "dup_unlock" ELSE "scan_unlock"]
    /\ UNCHANGED <<phb_bridge_list, phb_bridges, phb_host>>
    /\ UNCHANGED <<reg_vars, xl_vars, bn_vars>>

PhbUnlockTarget(at) ==
    CASE at = "dup_unlock" -> "kfree_dup"
      [] at = "scan_unlock" -> "prepare"
      [] at = "add_unlock" -> "idle"
      [] at = "f_unlock" -> "f_unreg"

\* mutex_unlock(&phb_mutex); after the one that follows list_add_tail()
\* the call returns host
PhbUnlock(p) ==
    /\ phb_pc[p] \in {"dup_unlock", "scan_unlock", "add_unlock", "f_unlock"}
    /\ phb_mutex = p
    /\ phb_mutex' = mutex_unlock(phb_mutex)
    /\ phb_pc' = [phb_pc EXCEPT ![p] = PhbUnlockTarget(phb_pc[p])]
    /\ phb_host' = [phb_host EXCEPT ![p] = IF phb_pc[p] = "add_unlock" THEN 0 ELSE @]
    /\ UNCHANGED <<phb_bridge_list, phb_bridges>>
    /\ UNCHANGED <<reg_vars, xl_vars, bn_vars>>

\* a duplicate was found: kfree(host); return NULL
PhbKfreeDup(p) ==
    /\ phb_pc[p] = "kfree_dup"
    /\ phb_bridges' = [phb_bridges EXCEPT ![phb_host[p]] =
            [NoPhbBridge EXCEPT !.st = "freed"]]
    /\ phb_host' = [phb_host EXCEPT ![p] = 0]
    /\ phb_pc' = [phb_pc EXCEPT ![p] = "idle"]
    /\ UNCHANGED <<phb_mutex, phb_bridge_list>>
    /\ UNCHANGED <<reg_vars, xl_vars, bn_vars>>

\* host->ops->phb_prepare(host), when set; on error kfree(host); return NULL
PhbPrepare(p) ==
    /\ phb_pc[p] = "prepare"
    /\ \E outcome \in {"none", "ok", "error"} :
         IF outcome = "error"
         THEN /\ phb_bridges' = [phb_bridges EXCEPT ![phb_host[p]] =
                     [NoPhbBridge EXCEPT !.st = "freed"]]
              /\ phb_host' = [phb_host EXCEPT ![p] = 0]
              /\ phb_pc' = [phb_pc EXCEPT ![p] = "idle"]
         ELSE /\ phb_pc' = [phb_pc EXCEPT ![p] = "register"]
              /\ UNCHANGED <<phb_bridges, phb_host>>
    /\ UNCHANGED <<phb_mutex, phb_bridge_list>>
    /\ UNCHANGED <<reg_vars, xl_vars, bn_vars>>

\* device_register(); on error put_device(), which releases the bridge, and
\* return NULL
PhbRegister(p) ==
    /\ phb_pc[p] = "register"
    /\ \E error \in BOOLEAN :
         IF error
         THEN /\ phb_bridges' = [phb_bridges EXCEPT ![phb_host[p]] =
                     [NoPhbBridge EXCEPT !.st = "freed"]]
              /\ phb_host' = [phb_host EXCEPT ![p] = 0]
              /\ phb_pc' = [phb_pc EXCEPT ![p] = "idle"]
         ELSE /\ phb_bridges' = [phb_bridges EXCEPT ![phb_host[p]].st = "registered"]
              /\ phb_pc' = [phb_pc EXCEPT ![p] = "move"]
              /\ UNCHANGED phb_host
    /\ UNCHANGED <<phb_mutex, phb_bridge_list>>
    /\ UNCHANGED <<reg_vars, xl_vars, bn_vars>>

\* the windows are moved from the caller's list into host->windows
PhbMoveWindows(p) ==
    /\ phb_pc[p] = "move"
    /\ phb_bridges' = [phb_bridges EXCEPT ![phb_host[p]].windows = TRUE]
    /\ phb_pc' = [phb_pc EXCEPT ![p] = "add"]
    /\ UNCHANGED <<phb_mutex, phb_bridge_list, phb_host>>
    /\ UNCHANGED <<reg_vars, xl_vars, bn_vars>>

\* mutex_lock(&phb_mutex); list_add_tail(&host->list, &pci_host_bridge_list)
PhbLockAdd(p) ==
    /\ phb_pc[p] = "add"
    /\ phb_mutex = 0
    /\ phb_mutex' = p
    /\ phb_bridge_list' = Append(phb_bridge_list, phb_host[p])
    /\ phb_pc' = [phb_pc EXCEPT ![p] = "add_unlock"]
    /\ UNCHANGED <<phb_bridges, phb_host>>
    /\ UNCHANGED <<reg_vars, xl_vars, bn_vars>>

\* pci_free_host_bridge(): mutex_lock(&phb_mutex); list_del(&host->list)
PhbFreeLockDel(p) ==
    /\ phb_pc[p] = "idle"
    /\ phb_mutex = 0
    /\ \E b \in BridgeIds :
         /\ InPhbList(b)
         /\ phb_bridges[b].st = "registered"
         /\ phb_bridges' = [phb_bridges EXCEPT ![b].st = "dying"]
         /\ phb_bridge_list' = SeqRemove(phb_bridge_list, b)
         /\ phb_host' = [phb_host EXCEPT ![p] = b]
    /\ phb_mutex' = p
    /\ phb_pc' = [phb_pc EXCEPT ![p] = "f_unlock"]
    /\ UNCHANGED <<reg_vars, xl_vars, bn_vars>>

\* pci_free_host_bridge(): device_unregister(), whose last put releases the
\* bridge
PhbFreeUnregister(p) ==
    /\ phb_pc[p] = "f_unreg"
    /\ phb_bridges' = [phb_bridges EXCEPT ![phb_host[p]] =
            [NoPhbBridge EXCEPT !.st = "freed"]]
    /\ phb_host' = [phb_host EXCEPT ![p] = 0]
    /\ phb_pc' = [phb_pc EXCEPT ![p] = "idle"]
    /\ UNCHANGED <<phb_mutex, phb_bridge_list>>
    /\ UNCHANGED <<reg_vars, xl_vars, bn_vars>>

PhbStep(p) ==
    \/ PhbCreateCall(p)
    \/ PhbLockScan(p)
    \/ PhbUnlock(p)
    \/ PhbKfreeDup(p)
    \/ PhbPrepare(p)
    \/ PhbRegister(p)
    \/ PhbMoveWindows(p)
    \/ PhbLockAdd(p)
    \/ PhbFreeLockDel(p)
    \/ PhbFreeUnregister(p)

NextPhb == \E p \in Procs : PhbStep(p)

SpecPhb == InitPhb /\ [][NextPhb]_vars

TypeOK ==
    /\ pci_host_mutex \in 0..NProcs
    /\ \A p \in Procs : host[p] \in 0..MaxBridges

\* =========================================================== registry claims
\* C12: every window of every bridge has start <= end, the bus-number window
\* also after it was normalized to the requested bus and after any conflict
\* narrowing of the new or the existing bridge.
C12_WindowRangesValid ==
    \A b \in BridgeIds :
        Live(b) =>
            \A i \in 1..Len(bridges[b].windows) :
                bridges[b].windows[i].start <= bridges[b].windows[i].end

ScanStep(p) == pc[p] = "lock" /\ pc'[p] \in {"unlock_ok", "unlock_fail"}
AssignStep(p) == pc[p] = "assign_wr" /\ pc'[p] = "lock"
CallStep(p) == pc[p] = "idle" /\ pc'[p] \in {"assign_rd", "lock"}
RegisterOk(p) ==
    pc[p] = "register" /\ pc'[p] = "idle" /\ bridges'[host[p]].st = "registered"
ReturnsNull(p) ==
    \/ pc[p] = "register" /\ pc'[p] = "idle" /\ bridges'[host[p]].st = "freed"
    \/ pc[p] = "free_res" /\ pc'[p] = "idle"
UnregisterStep(p) == pc[p] = "f_unreg" /\ pc'[p] = "idle"

Entries == {b \in BridgeIds : InList(b)}
LiveEntries == {b \in Entries : Live(b)}
BusnStart(b) == BusnView(b).start
BusnEnd(b) == BusnView(b).end
BusWindows(b) == {i \in 1..Len(bridges[b].windows) : bridges[b].windows[i].type = "bus"}
RangesDisjoint(s1, e1, s2, e2) == \A n \in 0..BusMax : ~(s1 <= n /\ n <= e1 /\ s2 <= n /\ n <= e2)

\* C2: a create that returns NULL leaves the registry list as it was when
\* the call began (no caller runs concurrently here).
C2_FailedCreateLeavesList ==
    [][\A p \in Procs : ReturnsNull(p) => pci_host_bridge_list' = preList[p]]_vars

\* the existing bridges a create of p meets with the same domain and the
\* same start of the bus-number window
EqualStartEntries(p) ==
    {a \in LiveEntries :
        /\ bridges[a].domain = bridges[host[p]].domain
        /\ BusnStart(a) = BusnStart(host[p])
        /\ resource_overlaps(BusnStart(host[p]), BusnEnd(host[p]), BusnStart(a), BusnEnd(a))}

\* C3: a create whose bus-number window starts where the window of an
\* existing bridge of its domain starts fails at the conflict scan: the
\* new bridge is not inserted and that bridge's window is unchanged.
C3_EqualStartFails ==
    [][\A p \in Procs :
         (ScanStep(p) /\ EqualStartEntries(p) # {}) =>
            /\ pc'[p] = "unlock_fail"
            /\ pci_host_bridge_list' = pci_host_bridge_list
            /\ \A a \in EqualStartEntries(p) : bridges'[a] = bridges[a]]_vars

C3_Witness ==
    \E p \in Procs :
        /\ rev = "check"
        /\ pc[p] = "unlock_fail"
        /\ \E a \in LiveEntries :
             /\ bridges[a].domain = bridges[host[p]].domain
             /\ BusnStart(a) = BusnStart(host[p])
             /\ bridges[a].st = "registered"

\* the existing bridges A = [a, ae] a create of p with B = [b, be] meets in
\* its domain with a < b <= ae and no live bus in [b, ae]
NarrowableEntries(p) ==
    {a \in LiveEntries :
        /\ bridges[a].domain = bridges[host[p]].domain
        /\ BusnStart(a) < BusnStart(host[p])
        /\ BusnStart(host[p]) <= BusnEnd(a)
        /\ \A n \in BusnStart(host[p])..BusnEnd(a) :
              ~pci_find_bus(bridges[host[p]].domain, n)}

NarrowedAsClaimed(p, a) ==
    /\ pc'[p] = "unlock_ok"
    /\ pci_host_bridge_list' = Append(pci_host_bridge_list, host[p])
    /\ BusnStart(a)' = BusnStart(a)
    /\ BusnEnd(a)' = BusnStart(host[p]) - 1
    /\ BusnStart(host[p])' = BusnStart(host[p])
    /\ BusnEnd(host[p])' = BusnEnd(host[p])

C5_LiveBusKept ==
    \A x \in buses : BusnStart(x[1]) <= x[2] /\ x[2] <= BusnEnd(x[1])

\* C6: two distinct bridges of the registry list with the same domain have
\* disjoint bus-number windows.
C6_SameDomainDisjoint ==
    \A a, b \in LiveEntries :
        (a # b /\ bridges[a].domain = bridges[b].domain) =>
            RangesDisjoint(BusnStart(a), BusnEnd(a), BusnStart(b), BusnEnd(b))

C6_Witness ==
    \E a, b \in LiveEntries :
        /\ a # b
        /\ rev = "check"
        /\ bridges[a].domain = bridges[b].domain
        /\ BusnEnd(a) + 1 = BusnStart(b)
        /\ BusnEnd(a) < BusMax
        /\ bridges[a].st = "registered" /\ bridges[b].st = "registered"

\* C7: once the counter has served an allocation, an allocation with a DT
\* domain returns -1; once a DT domain has been accepted, an allocation
\* without one returns -1; before either, both kinds are accepted; so the
\* accepted domains are never of both kinds.
C7_MixingRule ==
    [][\A p \in Procs :
         AssignStep(p) =>
            LET d == bridges'[host[p]].domain
                dt == args[p].dt IN
            /\ (Len(served) > 0 /\ dt >= 0) => d = -1
            /\ (dt_accepted /\ dt < 0) => d = -1
            /\ (Len(served) = 0 /\ ~dt_accepted) => (d # -1 /\ (dt >= 0 => d = dt))
            /\ ~(dt_accepted' /\ Len(served') > 0)]_vars

C7_Witness ==
    /\ Len(served) > 0
    /\ declared_seen
    /\ ~dt_accepted
    /\ \E b \in BridgeIds : Live(b) /\ bridges[b].domain = -1

\* C22: with create calls running concurrently, the domains accepted in
\* one run are never of both kinds: no run has accepted a DT domain and also
\* served a domain from the counter.
C22_NoMixingConcurrent ==
    ~(dt_accepted /\ Len(served) > 0)

\* C8: no bridge whose domain is the error marker is ever in the registry.
C8_NoErrorDomainInList ==
    \A b \in LiveEntries : bridges[b].domain >= 0

\* C9: as long as no DT domain has been supplied, the k-th allocation
\* returns k-1: 0 first, each value above all earlier ones, none twice.
C9_CounterMonotone ==
    [][\A p \in Procs :
         (AssignStep(p) /\ ~declared_seen) =>
            /\ bridges'[host[p]].domain = Len(served)
            /\ served' = Append(served, Len(served))
            /\ \A i \in 1..Len(served') : served'[i] = i - 1]_vars

C9_Witness ==
    /\ ~declared_seen
    /\ Len(served) = 2
    /\ \E b \in BridgeIds : Live(b) /\ bridges[b].domain = 1

FreeLockStep(p) == pc[p] = "idle" /\ pc'[p] = "f_unlock"

\* where a caller is about to run the prepare hook, device_register (and on
\* its failure put_device with the release callback) or device_unregister
\* (with the release callback)
AtExternalStep(p) == pc[p] \in {"prepare", "register", "f_unreg"}

\* C16: pci_host_mutex is not held by a caller that is at the prepare hook,
\* at device registration, at device unregistration or at the release
\* callback, nor by a caller that has returned.
C16_LockScope ==
    \A p \in Procs :
        (AtExternalStep(p) \/ pc[p] = "idle") => pci_host_mutex # p

C16_Witness ==
    \E p, q \in Procs :
        /\ p # q
        /\ pc[p] = "register"
        /\ pci_host_mutex = q
        /\ pc[q] = "list_del_unlock"

\* the release steps t of one teardown are in the documented order: the
\* release callback first and only when set, every step at most once, the
\* windows released, the bridge storage deallocated last
TeardownOrdered(t, fn) ==
    /\ Len(t) >= 2
    /\ t[Len(t)] = "kfree_bridge"
    /\ \A i, j \in 1..Len(t) : i # j => t[i] # t[j]
    /\ fn => t[1] = "release_fn"
    /\ ~fn => \A i \in 1..Len(t) : t[i] # "release_fn"
    /\ \E i \in 1..Len(t) : t[i] = "free_windows"

\* C15: pci_free_host_bridge takes the bridge off the list under the mutex;
\* the teardown runs only after the unlock, the release callback (when set)
\* once and first, the bridge storage last; from its removal on the bridge
\* is not in the list any more.
C15_FreeOrdering ==
    [][/\ \A p \in Procs :
            /\ FreeLockStep(p) =>
                  \A h \in BridgeIds : h = host'[p] =>
                     /\ pci_host_mutex = 0 /\ pci_host_mutex' = p
                     /\ InList(h) /\ ~InList(h)'
                     /\ teardown'[h] = <<>>
            /\ UnregisterStep(p) =>
                  /\ pci_host_mutex # p
                  /\ ~InList(host[p])
                  /\ teardown[host[p]] = <<>>
                  /\ TeardownOrdered(teardown'[host[p]], bridges[host[p]].release_fn)
       /\ \A b \in BridgeIds :
            (bridges[b].st \in {"dying", "freed"} /\ ~InList(b)) => ~InList(b)'
      ]_vars

C15_Witness ==
    \E b \in BridgeIds :
        /\ bridges[b].st = "freed"
        /\ ~InList(b)
        /\ Len(teardown[b]) = 4
        /\ teardown[b][1] = "release_fn"
        /\ teardown[b][4] = "kfree_bridge"

\* C17: whenever pci_host_mutex is free, every entry of the list is a bridge
\* whose create has finished (final domain, complete window store,
\* registered): nothing of an unfinished create is visible outside the lock.
C17_NoUnfinishedVisible ==
    pci_host_mutex = 0 =>
        \A b \in Entries : bridges[b].st = "registered"

\* a bridge that is in the list before and after the step
StaysListed(b) == InList(b) /\ Live(b) /\ InList(b)' /\ Live(b)'

\* C18 as stated: once a bridge is in the registry list no later operation
\* writes its window store, and once its create has returned none writes
\* its dynamic_busn flag.
C18_ReadOnlyAlways ==
    [][\A b \in BridgeIds :
         StaysListed(b) =>
            /\ bridges'[b].windows = bridges[b].windows
            /\ (bridges[b].st = "registered" =>
                    bridges'[b].dynamic_busn = bridges[b].dynamic_busn)]_vars

\* the step lowers the end of the bus-number window of b in the conflict
\* scan of a create of the same domain, and writes nothing else of it
NarrowedByScan(b) ==
    LET ws == bridges[b].windows
        f == FirstBusn(ws, 1) IN
    /\ rev = "check"
    /\ f # 0
    /\ \E e \in 0..BusMax :
          /\ e < ws[f].end
          /\ bridges'[b].windows = [ws EXCEPT ![f].end = e]
    /\ \E p \in Procs :
          /\ ScanStep(p)
          /\ pci_host_mutex' = p
          /\ bridges[host[p]].domain = bridges[b].domain

\* C18 amended: the only later write to the window store of a bridge of the
\* registry list is the conflict scan of a create of the same domain, which
\* under the lock lowers the end of its bus-number window; the other windows,
\* the start of the bus-number window and the flag are never written.
C18_ReadOnly ==
    [][\A b \in BridgeIds :
         StaysListed(b) =>
            /\ bridges'[b].windows = bridges[b].windows \/ NarrowedByScan(b)
            /\ (bridges[b].st = "registered" =>
                    bridges'[b].dynamic_busn = bridges[b].dynamic_busn)]_vars

\* a registered bridge with an address window was narrowed by the create of
\* a second bridge of its domain, which has released the lock
C18_Witness ==
    \E a, b \in LiveEntries :
        /\ a # b
        /\ bridges[a].st = "registered"
        /\ bridges[a].domain = bridges[b].domain
        /\ \E i \in 1..Len(bridges[a].windows) : bridges[a].windows[i].type # "bus"
        /\ rev = "check"
        /\ BusnEnd(a) + 1 = BusnStart(b)
        /\ BusnEnd(a) \notin {ShortRange[2], BusMax}
        /\ \E p \in Procs : host[p] = b /\ pc[p] = "prepare"
        /\ pci_host_mutex = 0

\* C19: a create that fails after the windows were moved into the new bridge
\* (conflict, prepare hook, device registration) has released the bridge's
\* window entries once, the bridge once, and the separately allocated
\* bus-number resource of a synthesized window once.
C19_FailedCreateReleasesAll ==
    [][\A p \in Procs :
         ReturnsNull(p) =>
            \A h \in BridgeIds :
               h = host[p] =>
                  /\ kfreed'[h].windows = 1
                  /\ kfreed'[h].bridge = 1
                  /\ kfreed'[h].busn = IF rev = "check" /\ args[p].dyn THEN 1 ELSE 0]_vars

ListIndex(b) == CHOOSE i \in 1..Len(pci_host_bridge_list) : pci_host_bridge_list[i] = b

\* entry c does not take part in the conflict resolution of the create of p
\* with a: it is a live bridge of another domain, or its window lies below
\* the new start or starts above a
NoPartIn(p, a, c) ==
    /\ Live(c)
    /\ \/ bridges[c].domain # bridges[host[p]].domain
       \/ BusnEnd(c) < BusnStart(host[p])
       \/ BusnStart(c) > BusnStart(a)

\* the entries a of the create's domain whose window the new one overlaps
\* with new.start < a.start when the scan of p comes to them
NewNarrowingEntries(p) ==
    {a \in LiveEntries :
        /\ bridges[a].domain = bridges[host[p]].domain
        /\ BusnStart(host[p]) < BusnStart(a)
        /\ BusnStart(a) <= BusnEnd(host[p])
        /\ \A c \in Entries :
              ListIndex(c) < ListIndex(a) => NoPartIn(p, a, c)}

\* C20: when the scan of a create comes to an existing bridge of its domain
\* whose window the new one overlaps with new.start < old.start, the new
\* window is cut to end at old.start - 1 (or below, by a later entry), the
\* new start and the existing window stay as they are, and the scan goes on:
\* when no other entry takes part the bridge is inserted as
\* [new.start, old.start - 1].
C20_NarrowsNew ==
    [][\A p \in Procs :
         (ScanStep(p) /\ rev = "check") =>
            \A h \in BridgeIds, a \in NewNarrowingEntries(p) :
               h = host[p] =>
                  /\ BusnStart(h)' = BusnStart(h)
                  /\ BusnEnd(h)' <= BusnStart(a) - 1
                  /\ BusnStart(a)' = BusnStart(a)
                  /\ BusnEnd(a)' = BusnEnd(a)
                  /\ (\A c \in Entries \ {a} : NoPartIn(p, a, c)) =>
                        /\ BusnEnd(h)' = BusnStart(a) - 1
                        /\ pc'[p] = "unlock_ok"
                        /\ pci_host_bridge_list' = Append(pci_host_bridge_list, h)]_vars

\* the new bridge was cut below an existing bridge of its domain, with a
\* third bridge in the list, and is in the list
C20_Witness ==
    \E p \in Procs, a, c \in LiveEntries :
        /\ rev = "check"
        /\ pc[p] = "unlock_ok"
        /\ a # host[p] /\ c # host[p] /\ a # c
        /\ InList(host[p])
        /\ bridges[a].domain = bridges[host[p]].domain
        /\ bridges[a].st = "registered"
        /\ BusnStart(host[p]) < BusnStart(a)
        /\ BusnEnd(host[p]) = BusnStart(a) - 1
        /\ BusnEnd(a) = BusMax

\* C21: when a create returns NULL, every bridge that was in the registry
\* list when the call began has the bus-number window it had then.
C21_FailedCreateKeepsWindows ==
    [][\A p \in Procs :
         ReturnsNull(p) =>
            \A b \in BridgeIds :
               (\E i \in 1..Len(preList[p]) : preList[p][i] = b) /\ Live(b)' /\ preBusn[p][b] # <<0, 0>>
                  => <<BusnStart(b)', BusnEnd(b)'>> = preBusn[p][b]]_vars

\* ===================================================== busnum revision claims
\* C23: in the revision that keys bridges by busnum, the registry list never
\* holds two bridges with the same domain and the same busnum.
C23_UniqueKey ==
    \A i, j \in 1..Len(phb_bridge_list) :
        i # j =>
            \/ phb_bridges[phb_bridge_list[i]].domain # phb_bridges[phb_bridge_list[j]].domain
            \/ phb_bridges[phb_bridge_list[i]].busnum # phb_bridges[phb_bridge_list[j]].busnum

\* ===================================================== bus-number manager claims
BusIdx(ws) == {i \in 1..Len(ws) : ws[i].type = "bus"}
Max(a, b) == IF a >= b THEN a ELSE b

\* what C11 says of one call: one bus-number window afterwards, starting at
\* max(declared start, bus), or at bus when none was supplied; a supplied
\* window that starts at bus or above is left as it was
BnNormalized ==
    /\ Cardinality(BusIdx(bn_out)) = 1
    /\ \A i \in BusIdx(bn_out) :
         bn_out[i].start =
            IF BusIdx(bn_list) = {} THEN bn_bus
            ELSE Max(bn_list[FirstBusn(bn_list, 1)].start, bn_bus)
    /\ (BusIdx(bn_list) # {} /\ bn_list[FirstBusn(bn_list, 1)].start >= bn_bus)
          => bn_out = bn_list

\* C11 as stated: for every caller-supplied list and bus, after
\* pci_host_update_busn_res the list has exactly one bus-number window, with
\* start max(declared start, bus).
C11_NormalizedAnyList == bn_pc = "done" => BnNormalized

\* C11 amended: the same for every caller-supplied list that has at most
\* one bus-number window.
C11_Normalized ==
    (bn_pc = "done" /\ Cardinality(BusIdx(bn_list)) <= 1) => BnNormalized

C11_Witness ==
    /\ bn_pc = "done"
    /\ Cardinality(BusIdx(bn_list)) = 1
    /\ \E i \in BusIdx(bn_list) : bn_list[i].start < bn_bus /\ bn_out[i].start = bn_bus

\* ======================================================== translation claims
\* the two windows of C13 at positions i < j of the store: same type,
\* different offsets
OrderedPairs ==
    {x \in (1..Len(xl_windows)) \X (1..Len(xl_windows)) :
        /\ x[1] < x[2]
        /\ xl_windows[x[1]].type = xl_windows[x[2]].type
        /\ xl_windows[x[1]].offset # xl_windows[x[2]].offset}

\* the resource lies inside the CPU ranges of both, and of no window before
InBothCpu(x) ==
    /\ resource_contains(xl_windows[x[1]], xl_res)
    /\ resource_contains(xl_windows[x[2]], xl_res)
    /\ \A k \in 1..(x[1] - 1) : ~resource_contains(xl_windows[k], xl_res)

\* the region lies inside the bus spans of both, which have the resource's
\* type, and of no window of that type before
InBothBus(x) ==
    /\ xl_windows[x[1]].type = xl_res.type
    /\ region_contains(BusRegion(xl_windows[x[1]]), xl_region)
    /\ region_contains(BusRegion(xl_windows[x[2]]), xl_region)
    /\ \A k \in 1..(x[1] - 1) :
          ~(xl_windows[k].type = xl_res.type
            /\ region_contains(BusRegion(xl_windows[k]), xl_region))

\* C13: of two same-type windows with different offsets stored W1 then W2,
\* both containing the input, the translation uses W1's offset and not
\* W2's, in both directions.
C13_FirstMatch ==
    \A x \in OrderedPairs :
        LET w1 == xl_windows[x[1]]
            w2 == xl_windows[x[2]] IN
        /\ (xl_pc \in {"region", "resource"} /\ InBothCpu(x)) =>
              /\ xl_region = Range(Wrap(xl_res.start - w1.offset),
                                   Wrap(xl_res.end - w1.offset))
              /\ xl_region # Range(Wrap(xl_res.start - w2.offset),
                                   Wrap(xl_res.end - w2.offset))
        /\ (xl_pc \in {"resource", "direct"} /\ InBothBus(x)) =>
              /\ xl_out = Range(Wrap(xl_region.start + w1.offset),
                                Wrap(xl_region.end + w1.offset))
              /\ xl_out # Range(Wrap(xl_region.start + w2.offset),
                                Wrap(xl_region.end + w2.offset))

C13_Witness ==
    /\ xl_pc = "direct"
    /\ \E x \in OrderedPairs :
         /\ InBothBus(x)
         /\ resource_contains(xl_windows[x[1]], xl_res)
         /\ resource_contains(xl_windows[x[2]], xl_res)
         /\ xl_out = Range(Wrap(xl_region.start + xl_windows[x[1]].offset),
                           Wrap(xl_region.end + xl_windows[x[1]].offset))

\* C14: when no window's CPU range fully contains R (a window may overlap
\* R in part, the store may be empty), pcibios_resource_to_bus gives the
\* region [R.start, R.end].
C14_Passthrough ==
    (/\ xl_pc \in {"region", "resource"}
     /\ \A i \in 1..Len(xl_windows) : ~resource_contains(xl_windows[i], xl_res))
        => xl_region = Range(xl_res.start, xl_res.end)

C14_Witness ==
    /\ xl_pc = "region"
    /\ Len(xl_windows) = MaxWindows
    /\ \A i \in 1..Len(xl_windows) :
         /\ ~resource_contains(xl_windows[i], xl_res)
         /\ resource_overlaps(xl_windows[i].start, xl_windows[i].end,
                              xl_res.start, xl_res.end)
         /\ xl_windows[i].offset # 0
    /\ xl_region = Range(xl_res.start, xl_res.end)


RECURSIVE FirstContaining(_, _, _)
\* index of the first window whose CPU range contains res, 0 = none
FirstContaining(ws, i, res) ==
    IF i > Len(ws) THEN 0
    ELSE IF resource_contains(ws[i], res) THEN i
    ELSE FirstContaining(ws, i + 1, res)

XlRoundTripDone == xl_pc = "resource"
XlResRange == Range(xl_res.start, xl_res.end)
NoWrap(w) == BusRegion(w).start <= BusRegion(w).end
SpansDisjoint(v, w) ==
    BusRegion(v).end < BusRegion(w).start \/ BusRegion(w).end < BusRegion(v).start
\* windows of type t: bus regions that do not wrap and are pairwise disjoint
TypeSpansSeparate(ws, t) ==
    /\ \A i \in 1..Len(ws) : ws[i].type = t => NoWrap(ws[i])
    /\ \A i, j \in 1..Len(ws) :
         (i # j /\ ws[i].type = t /\ ws[j].type = t) => SpansDisjoint(ws[i], ws[j])

\* C1 as stated: whenever some window's CPU range contains R, translating R
\* to a bus region and back with R's type gives R again, whatever the order,
\* offsets and overlaps of the windows. (Stated here for the stores where
\* only windows of R's own type contain R and no bus region wraps around:
\* it fails already there.)
C1_RoundTripAnyStore ==
    (/\ XlRoundTripDone
     /\ \E i \in 1..Len(xl_windows) : resource_contains(xl_windows[i], xl_res)
     /\ \A i \in 1..Len(xl_windows) :
          /\ resource_contains(xl_windows[i], xl_res) => xl_windows[i].type = xl_res.type
          /\ NoWrap(xl_windows[i]))
        => xl_out = XlResRange

\* C1 amended: the round trip gives R back when the first window whose CPU
\* range contains R has R's type and the windows of that type have bus
\* regions that do not wrap around and are pairwise disjoint.
C1_RoundTrip ==
    LET f == FirstContaining(xl_windows, 1, xl_res) IN
    (/\ XlRoundTripDone
     /\ f # 0
     /\ xl_windows[f].type = xl_res.type
     /\ TypeSpansSeparate(xl_windows, xl_res.type))
        => xl_out = XlResRange

C1_Witness ==
    LET f == FirstContaining(xl_windows, 1, xl_res) IN
    /\ XlRoundTripDone
    /\ f = 2
    /\ xl_windows[f].type = xl_res.type
    /\ xl_windows[1].type = xl_res.type
    /\ xl_windows[f].offset # 0
    /\ TypeSpansSeparate(xl_windows, xl_res.type)
    /\ xl_region # XlResRange
    /\ xl_out = XlResRange

====
